---- MODULE Spec2Model ----
(***************************************************************************)
(* Model of the media pipeline of .github/scripts/process_file.py and of   *)
(* the naming script .github/scripts/get_gemini_description.py.            *)
(*                                                                         *)
(* One run of process_file.py main() is a process: it loads index.json,    *)
(* looks its asset up by hash, runs the naming, image/video and page       *)
(* stages and writes index.json back.  Runs share the file index.json and  *)
(* the directory processed_media/images.                                   *)
(*                                                                         *)
(* Strings are sequences of string parts, so that an f-string is the       *)
(* concatenation of its parts and a slice is a SubSeq: a hash is a         *)
(* sequence of 4-character blocks and file_hash[:8] is its first two.      *)
(* None (and the empty string, equally falsy) is the empty sequence.       *)
(***************************************************************************)
EXTENDS Integers, Sequences, FiniteSets, TLC

\* ------------------------------------------------------------------ bounds

\* Runs started in one behaviour.
MaxRuns == 2

\* The processes that run main(): two, for two CI jobs at the same time.
Procs == {1, 2}

\* ------------------------------------------------------- program constants

STEP_GEMINI_DESCRIPTION == "gemini_description"

STEP_IMAGE_CONVERSION == "image_conversion"

STEP_HTML_GENERATION == "html_generation"

STEP_VIDEO_CONVERSION == "video_conversion"

Steps ==
  {STEP_GEMINI_DESCRIPTION, STEP_IMAGE_CONVERSION, STEP_HTML_GENERATION, STEP_VIDEO_CONVERSION}

\* The step keywords in the order Python's sorted() gives them.
StepOrder ==
  <<STEP_GEMINI_DESCRIPTION, STEP_HTML_GENERATION, STEP_IMAGE_CONVERSION, STEP_VIDEO_CONVERSION>>

\* sorted(list(processed_steps))
SortedSteps(S) == SelectSeq(StepOrder, LAMBDA s : s \in S)

\* The widths taken smallest first.
WidthsAscending == <<640, 1280, 1920>>

\* widths = [1920, 1280, 640]
widths == <<1920, 1280, 640>>

\* heights = [1080, 720]
heights == <<1080, 720>>

\* str(width) and str(height) inside the f-strings that build file names.
SizeStr(n) ==
  CASE n = 1920 -> "1920"
    [] n = 1280 -> "1280"
    [] n = 640 -> "640"
    [] n = 1080 -> "1080"
    [] n = 720 -> "720"

None == <<>>

\* ------------------------------------------------------------ pathlib

\* A pathlib.Path, a str, or the TypeError a bad operand raises.
PyPath(parts) == [type |-> "Path", parts |-> parts]

PyStr(parts) == [type |-> "str", parts |-> parts]

TypeError == [type |-> "TypeError", parts |-> <<>>]

\* Path.name: the last component, a str.
PathName(p) == PyStr(<<p.parts[Len(p.parts)]>>)

\* left / right: defined by Path.__truediv__ only; str / str raises TypeError.
PathDiv(left, right) ==
  IF left.type = "Path" /\ right.type \in {"Path", "str"}
  THEN PyPath(left.parts \o right.parts)
  ELSE TypeError

BASE_OUTPUT_DIR == PyPath(<<"processed_media">>)

DESCRIPTION_DIR == PathDiv(BASE_OUTPUT_DIR, PyStr(<<"descriptions">>))

IMAGE_DIR == PathDiv(BASE_OUTPUT_DIR, PyStr(<<"images">>))

VIDEO_DIR == PathDiv(BASE_OUTPUT_DIR, PyStr(<<"videos">>))

HTML_DIR == PathDiv(BASE_OUTPUT_DIR, PyStr(<<"html">>))

\* ------------------------------------------------------------ inputs

\* --file-hash values: MD5 digests as 4-character blocks.
Hashes == { <<"d41d", "8cd9", "8f00">>, <<"9e10", "7d9d", "372b">> }

\* file_hash[:8]
HashPrefix(h) == SubSeq(h, 1, IF Len(h) < 2 THEN Len(h) ELSE 2)

\* --input-file values: <<stem, suffix>>.
InputFiles == { <<"a", ".jpg">>, <<"a", ".MP4">>, <<"notes", ".txt">> }

\* str.lower() on a suffix.
Lower(s) ==
  CASE s = ".MP4" -> ".mp4"
    [] s = ".JPG" -> ".jpg"
    [] OTHER -> s

\* --github-repository and --github-ref-for-raw-url values.
UrlArgs == { <<"rngadam/assets", "refs/heads/main">> }

\* f"https://raw.githubusercontent.com/{repository}/{ref}/"
RawContentUrlPrefix(u) == <<"https://raw.githubusercontent.com/", u[1], "/", u[2], "/">>

\* ------------------------------------------------ get_gemini_description.py

\* response_filename.text of the Gemini answer ("" when the answer has no text).
ResponseTexts == { "Red Bicycle", "" }

\* sanitize_filename(text): lower-case, whitespace to "-", drop every other
\* character that is not a-z, 0-9 or "-", strip "-".
sanitize_filename(text) ==
  CASE text = "Red Bicycle" -> <<"red-bicycle">>
    [] text = "quota exceeded" -> <<"quota-exceeded">>
    [] OTHER -> <<>>

\* What the Gemini API does for one call of get_descriptions.
ApiOutcomes ==
  { [case |-> "file_not_found", text |-> ""], [case |-> "api_exception", text |-> "quota exceeded"] }
    \cup { [case |-> "answered", text |-> t] : t \in ResponseTexts }

\* get_descriptions(api_key, file_path, output_dir): the concise file name the
\* script prints.
get_descriptions(api) ==
  CASE api.case = "file_not_found" -> <<"error-", "file-not-found">>
    [] api.case = "api_exception" -> <<"error-", "api-failed-">> \o sanitize_filename(api.text)
    [] OTHER ->
         IF api.text # "" /\ sanitize_filename(api.text) # <<>>
         THEN sanitize_filename(api.text)
         ELSE <<"generic-media-file">>

\* What subprocess.run of the naming script gives process_file.py: the script
\* ran to its end (return code 0, the name on stdout), died with a traceback
\* (return code 1), or subprocess.run itself raised.  named tells whether
\* get_descriptions returned a name from its normal path (line 76) and not
\* one of its error- values.
NamingResults ==
  { [kind |-> "exit", returncode |-> 0, stdout |-> get_descriptions(api),
     named |-> api.case = "answered"] : api \in ApiOutcomes }
    \cup { [kind |-> "exit", returncode |-> 1, stdout |-> <<>>, named |-> FALSE],
           [kind |-> "FileNotFoundError", returncode |-> 0, stdout |-> <<>>, named |-> FALSE],
           [kind |-> "Exception", returncode |-> 0, stdout |-> <<>>, named |-> FALSE] }

\* How the naming operation failed, as main() can tell its cases apart: the
\* script could not be started, subprocess.run raised, the script ended with
\* a return code other than 0, or it printed no name; "" when it gave a name.
NamingFailure(result) ==
  CASE result.kind = "FileNotFoundError" -> "script-missing"
    [] result.kind = "Exception" -> "exception"
    [] result.returncode # 0 -> "script-failed"
    [] ~result.named -> "error-output"
    [] OTHER -> ""

\* The test of line 158 without its "error-" half.
IsErrorOutputEmptyOnly(out) == out = <<>>

\* "error-" in gemini_output_base_name.lower() or not gemini_output_base_name
IsErrorOutput(out) == out = <<>> \/ \E i \in 1..Len(out) : out[i] = "error-"

\* ------------------------------------------------------------ index.json

\* The file index.json: absent, or present with text that is not JSON (also a
\* file cut short while being written), a JSON value that is no list, or a
\* JSON list.
AbsentFile == [exists |-> FALSE, json |-> "none", data |-> <<>>]

InvalidFile == [exists |-> TRUE, json |-> "invalid", data |-> <<>>]

ObjectFile == [exists |-> TRUE, json |-> "object", data |-> <<>>]

ListFile(data) == [exists |-> TRUE, json |-> "list", data |-> data]

\* A list element that is no JSON object (a string, a number).
NonDict == [json_type |-> "string"]

IsDict(e) == "json_type" \notin DOMAIN e

\* dict.get(key): None when the key is missing.
Get(d, key) == IF key \in DOMAIN d THEN d[key] ELSE None

\* d[key] = value
Put(d, key, value) == [k \in DOMAIN d \cup {key} |-> IF k = key THEN value ELSE d[k]]

\* load_index_data(index_path): the list in the file, [] for every other case
\* (no file, json.JSONDecodeError, content that is not a list).
load_index_data(f) ==
  IF f.exists
  THEN IF f.json = "list" THEN f.data ELSE <<>>
  ELSE <<>>

\* The loop of find_asset_in_index from position i: the position of the first
\* asset whose source_hash is file_hash, 0 when the loop ends without one, and
\* -1 when asset.get raises AttributeError on an element that is no dict.
RECURSIVE FindFrom(_, _, _)
FindFrom(index_data, file_hash, i) ==
  IF i > Len(index_data) THEN 0
  ELSE IF ~IsDict(index_data[i]) THEN -1
  ELSE IF Get(index_data[i], "source_hash") = file_hash THEN i
  ELSE FindFrom(index_data, file_hash, i + 1)

find_asset_in_index(index_data, file_hash) == FindFrom(index_data, file_hash, 1)

\* update_asset_in_index without its replace branch.
UpdateFromAppend(index_data, asset_data, i) == Append(index_data, asset_data)

\* The enumerate loop of update_asset_in_index from position i.
RECURSIVE UpdateFrom(_, _, _)
UpdateFrom(index_data, asset_data, i) ==
  IF i > Len(index_data) THEN Append(index_data, asset_data)
  ELSE IF Get(index_data[i], "source_hash") = Get(asset_data, "source_hash")
  THEN [index_data EXCEPT ![i] = asset_data]
  ELSE UpdateFrom(index_data, asset_data, i + 1)

\* update_asset_in_index without the test of line 72.
UpdateUnchecked(index_data, asset_data) == UpdateFrom(index_data, asset_data, 1)

\* update_asset_in_index(index_data, asset_data)
update_asset_in_index(index_data, asset_data) ==
  IF Get(asset_data, "source_hash") = None
  THEN index_data
  ELSE UpdateFrom(index_data, asset_data, 1)

\* ------------------------------------------------------------ state

VARIABLES
  file,   \* index.json (INDEX_FILE_PATH)
  disk,   \* the files of processed_media/images whose existence main() tests
  proc,   \* per process: the position in main(), its arguments and locals
  runs    \* runs started so far

vars == <<file, disk, proc, runs>>

\* The stage executors: the naming script, convert, the page writer, ffmpeg.
Executors == {"naming", "image", "html", "video"}

\* What the next run of a process remembers of the one before: whether it
\* ran to its end with every external operation succeeding and the index
\* written ("clean", with its arguments), was killed (with its hash and the
\* steps it had completed), or ended otherwise.
NoRun ==
  [status |-> "none", file_hash |-> None, input_file |-> <<"", "">>, url |-> <<"", "">>,
   added |-> {}, between_stages |-> FALSE]

\* A process that has not started main().  Fields named after main()'s
\* locals hold them; the fields from loaded on record the run for the
\* properties and decide no step: the list as loaded and whether the file
\* was malformed, the steps of the entry as loaded, the executors invoked,
\* those of naming and page writing that reported success, how the naming
\* operation failed, whether an external operation failed, whether the index
\* was written, and the run before.
IdleProc ==
  [pc |-> "idle",
   file_hash |-> None, input_file |-> <<"", "">>, url |-> <<"", "">>,
   index_data |-> <<>>, found_at |-> 0,
   current_asset_data |-> [source_hash |-> None],
   processed_steps |-> {}, current_base_name |-> None,
   conversion_ok |-> TRUE, attempts |-> <<>>,
   exit_code |-> 0,
   loaded |-> <<>>, malformed |-> FALSE, loaded_steps |-> {},
   invoked |-> {}, reported_ok |-> {}, naming_failure |-> "",
   ext_failed |-> FALSE, saved |-> FALSE,
   prev |-> NoRun]

Range(seq) == { seq[i] : i \in 1..Len(seq) }

\* The run that ended in state st, as the next run remembers it.
Summary(st) ==
  CASE st.pc \in {"idle", "killed"} -> st.prev
    [] st.pc = "done" /\ st.saved /\ ~st.ext_failed /\ st.exit_code = 0 ->
         [NoRun EXCEPT !.status = "clean", !.file_hash = st.file_hash,
                       !.input_file = st.input_file, !.url = st.url]
    [] OTHER -> [NoRun EXCEPT !.status = "failed"]

\* The run killed in state st, as the next run remembers it.
Killed(st) ==
  [NoRun EXCEPT !.status = "killed", !.file_hash = st.file_hash,
                !.added = st.processed_steps \ st.loaded_steps,
                !.between_stages = st.pc \in {"describe", "html", "persist"}
                                     \/ (st.pc \in {"image", "video"} /\ st.attempts = <<>>)]

\* ------------------------------------------------------ main(): load

\* The new entry of lines 105-118.
NewAsset(file_hash, input_file, url) ==
  [source_file_path |-> input_file,
   source_hash |-> file_hash,
   base_name |-> None,
   description_markdown_path |-> None,
   processed_steps |-> <<>>,
   outputs |-> [type |-> None, html_page_path |-> None, image_files |-> <<>>, video_files |-> <<>>],
   raw_content_url_prefix |-> RawContentUrlPrefix(url)]

\* dict.setdefault(key, value)
SetDefault(d, key, value) == IF key \in DOMAIN d THEN d ELSE Put(d, key, value)

\* The existing entry after lines 120-127.
ExistingAsset(asset, input_file, url) ==
  LET a1 == SetDefault(asset, "processed_steps", <<>>)
      a2 == SetDefault(a1, "outputs",
              [type |-> None, html_page_path |-> None, image_files |-> <<>>, video_files |-> <<>>])
      a3 == Put(a2, "raw_content_url_prefix", RawContentUrlPrefix(url))
  IN  Put(a3, "source_file_path", input_file)

\* index.json is there and is not a JSON list of objects.
Malformed(f) ==
  f.exists /\ (f.json # "list" \/ \E i \in 1..Len(f.data) : ~IsDict(f.data[i]))

\* Lines 99-132: load the index, find or create the entry, read its steps and
\* base name.  An AttributeError of find_asset_in_index is not caught.
LoadStep(st, f, file_hash, input_file, url) ==
  LET index_data == load_index_data(f)
      at == find_asset_in_index(index_data, file_hash)
      asset == IF at > 0
               THEN ExistingAsset(index_data[at], input_file, url)
               ELSE NewAsset(file_hash, input_file, url)
      begun == [IdleProc EXCEPT
                  !.file_hash = file_hash, !.input_file = input_file, !.url = url,
                  !.index_data = index_data, !.loaded = index_data,
                  !.malformed = Malformed(f),
                  !.prev = Summary(st)]
  IN  IF at = -1
      THEN [begun EXCEPT !.pc = "crashed", !.exit_code = 1]
      ELSE [begun EXCEPT
              !.pc = "gemini",
              !.found_at = at,
              !.current_asset_data = asset,
              !.processed_steps = Range(Get(asset, "processed_steps")),
              !.loaded_steps = Range(Get(asset, "processed_steps")),
              !.current_base_name = Get(asset, "base_name")]

\* ------------------------------------------------------ main(): naming

\* A stage that runs whatever is flagged.
ShouldRunAlways(processed_steps, step) == TRUE

\* "if STEP_... not in processed_steps" of lines 136, 246, 310 and 402.
ShouldRun(processed_steps, step) == step \notin processed_steps

\* str(path)
PathStr(p) == p.parts

\* A fallback name built from the whole hash.
FallbackNameFullHash(tag, file_hash) == <<tag>> \o file_hash

\* A fallback name that leaves the hash out.
FallbackNameNoHash(tag, file_hash) == <<tag>>

\* A failure branch that sets no fallback name.
FallbackNameUnset(tag, file_hash) == None

\* f"generic-media-{file_hash[:8]}" and its variants.
FallbackName(tag, file_hash) == <<tag>> \o HashPrefix(file_hash)

\* A failure branch that also stores the fallback name in the entry.
NamingFailedRecorded(ran, tag) ==
  LET name == FallbackName(tag, ran.file_hash)
  IN  [ran EXCEPT !.ext_failed = TRUE, !.current_base_name = name,
                  !.current_asset_data = Put(@, "base_name", name)]

\* A failure branch of the Gemini step (lines 159-163, 175-179, 180-182,
\* 183-185): the fallback name goes to the local current_base_name only; the
\* entry keeps its base_name and gets no flag.
NamingFailed(ran, tag) ==
  [ran EXCEPT !.ext_failed = TRUE, !.current_base_name = FallbackName(tag, ran.file_hash)]

\* A success branch that drops the other flags, for the outputs to be built
\* again under the new name.
NamingSucceededRebuild(ran, name) ==
  LET md == PathDiv(DESCRIPTION_DIR, PyStr(name \o <<".md">>))
  IN  [ran EXCEPT
         !.current_base_name = name,
         !.current_asset_data =
            Put(Put(Put(@, "base_name", name), "description_markdown_path", PathStr(md)),
                "processed_steps", <<STEP_GEMINI_DESCRIPTION>>),
         !.processed_steps = {STEP_GEMINI_DESCRIPTION}]

\* The success branch of the Gemini step (lines 165-173): the name, the path
\* of its description and the flag go to the entry; nothing else of it changes.
NamingSucceeded(ran, name) ==
  LET steps == ran.processed_steps \cup {STEP_GEMINI_DESCRIPTION}
      md == PathDiv(DESCRIPTION_DIR, PyStr(name \o <<".md">>))
  IN  [ran EXCEPT
         !.current_base_name = name,
         !.current_asset_data =
            Put(Put(Put(@, "base_name", name), "description_markdown_path", PathStr(md)),
                "processed_steps", SortedSteps(steps)),
         !.processed_steps = steps]

\* A skipped step that leaves a missing name missing.
RecoverNameSkipped(st) == [st EXCEPT !.pc = "describe"]

\* Lines 189-193: the step is flagged and the entry has no base_name; the
\* recovery name goes to current_base_name and to the entry.
RecoverName(st) ==
  LET name == FallbackName("generic-recovery-", st.file_hash)
  IN  [st EXCEPT
         !.pc = "describe",
         !.current_base_name = name,
         !.current_asset_data = Put(@, "base_name", name)]

\* Lines 136-193: the Gemini description step, given what the naming script
\* returned (result is read only when the step runs).
GeminiStep(st, result) ==
  IF ShouldRun(st.processed_steps, STEP_GEMINI_DESCRIPTION)
  THEN LET ran == [st EXCEPT !.pc = "describe", !.invoked = @ \cup {"naming"},
                             !.naming_failure = NamingFailure(result)]
       IN  IF result.kind = "exit"
           THEN IF result.returncode = 0
                THEN IF IsErrorOutput(result.stdout)
                     THEN NamingFailed(ran, "generic-media-")
                     ELSE NamingSucceeded(
                            [ran EXCEPT
                               !.reported_ok = IF result.named THEN @ \cup {"naming"} ELSE @],
                            result.stdout)
                ELSE NamingFailed(ran, "generic-media-script-failed-")
           ELSE IF result.kind = "FileNotFoundError"
           THEN NamingFailed(ran, "generic-media-script-missing-")
           ELSE NamingFailed(ran, "generic-media-exception-")
  ELSE IF st.current_base_name = None
  THEN RecoverName(st)
  ELSE [st EXCEPT !.pc = "describe"]

\* suffix.lower() in [...]
ImageSuffixes == {".jpg", ".jpeg", ".png", ".gif", ".webp"}

VideoSuffixes == {".mp4", ".mov", ".avi", ".mkv", ".webm", ".flv"}

is_image(input_file) == Lower(input_file[2]) \in ImageSuffixes

\* Everything that is no image taken for a video.
IsVideoElse(input_file) == ~is_image(input_file)

is_video(input_file) == Lower(input_file[2]) \in VideoSuffixes

\* outputs["type"] = ...
SetOutput(asset, key, value) == Put(asset, "outputs", Put(asset.outputs, key, value))

\* An exit that reports success.
ExitZero == 0

\* sys.exit(1) of lines 219 and 242.
FatalExit == 1

\* Lines 195-242: the description is read (it only feeds the page text), the
\* run ends with exit code 1 when there is no base name, else the type is
\* recorded and the run goes to the stage of that type.
ClassifyStep(st) ==
  IF st.current_base_name = None
  THEN [st EXCEPT !.pc = "persist", !.exit_code = FatalExit]
  ELSE LET type == IF is_image(st.input_file) THEN <<"image">>
                   ELSE IF is_video(st.input_file) THEN <<"video">>
                   ELSE <<"unknown">>
       IN  [st EXCEPT
              !.current_asset_data = SetOutput(@, "type", type),
              !.pc = IF is_image(st.input_file) THEN "image"
                     ELSE IF is_video(st.input_file) THEN "video"
                     ELSE "persist"]

\* ------------------------------------------------------ main(): image stage

\* f"{current_base_name}-{width}w.jpg"; the page step's f"{...}-640w.jpg" is
\* the same string for width 640.
ImageFileName(base_name, size, ext) == base_name \o <<"-", size, "w.", ext>>

\* What convert and exiftool do for one width: both encodings are produced,
\* the JPEG convert fails, exiftool cannot be started after the JPEG was
\* written, or the WebP convert fails after the JPEG entry was recorded.
ImageOutcomes == {"ok", "jpg_convert_failed", "jpg_exiftool_failed", "webp_convert_failed"}

\* The entry appended to image_files: its path is relative to processed_media.
ImageEntry(base_name, width, format) ==
  [format |-> format, width |-> width,
   path |-> PathStr(PathDiv(PyPath(PathName(IMAGE_DIR).parts),
                            PyStr(ImageFileName(base_name, SizeStr(width), format))))]

\* output_jpg_abs_path = IMAGE_DIR / jpg_filename
ImageAbsPath(base_name, size, ext) ==
  PathStr(PathDiv(IMAGE_DIR, PyStr(ImageFileName(base_name, size, ext))))

\* A stage that keeps the list of an earlier attempt.
FirstPassFilesKept(files, n) == files

\* outputs["image_files"] = [] (line 250; line 406 for video_files) before
\* the loop: the list at pass n + 1.
FirstPassFiles(files, n) == IF n = 0 THEN <<>> ELSE files

\* The flag set whatever the loop did.
ImageMarksCompleteAlways(conversion_ok) == TRUE

\* conversion_ok at the end of the loop decides the flag (lines 298-303).
ImageMarksComplete(conversion_ok) == conversion_ok

\* Lines 246-305: one pass of the loop over widths (the stage is left at once
\* when it is already flagged).  The first pass clears image_files.
ImageStep(st, outcome) ==
  IF ~ShouldRun(st.processed_steps, STEP_IMAGE_CONVERSION)
  THEN [st EXCEPT !.pc = "html"]
  ELSE LET n == Len(st.attempts)
           width == widths[n + 1]
           asset == SetOutput(st.current_asset_data, "image_files",
                              FirstPassFiles(st.current_asset_data.outputs.image_files, n))
           jpg == ImageEntry(st.current_base_name, width, "jpg")
           webp == ImageEntry(st.current_base_name, width, "webp")
           image_files ==
             CASE outcome = "ok" -> asset.outputs.image_files \o <<jpg, webp>>
               [] outcome = "webp_convert_failed" -> Append(asset.outputs.image_files, jpg)
               [] OTHER -> asset.outputs.image_files
           ok == st.conversion_ok /\ outcome = "ok"
           last == n + 1 = Len(widths) \/ outcome # "ok"
           steps == IF last /\ ImageMarksComplete(ok)
                    THEN st.processed_steps \cup {STEP_IMAGE_CONVERSION}
                    ELSE st.processed_steps
           recorded == SetOutput(asset, "image_files", image_files)
       IN  [st EXCEPT
              !.attempts = Append(@, [size |-> width, ok |-> outcome = "ok"]),
              !.invoked = @ \cup {"image"},
              !.ext_failed = @ \/ outcome # "ok",
              !.conversion_ok = ok,
              !.processed_steps = steps,
              !.current_asset_data =
                 IF steps # st.processed_steps
                 THEN Put(recorded, "processed_steps", SortedSteps(steps))
                 ELSE recorded,
              !.pc = IF last THEN "html" ELSE "image"]

\* The files one pass of ImageStep adds to disk.  Only the 640w JPEG is
\* kept track of: it is the one file whose existence main() tests (line 309).
\* It is there once convert has written it, whatever fails afterwards.
ImageWrites(st, outcome) ==
  IF ~ShouldRun(st.processed_steps, STEP_IMAGE_CONVERSION) \/ outcome = "jpg_convert_failed"
  THEN {}
  ELSE LET size == SizeStr(widths[Len(st.attempts) + 1])
       IN  IF size = "640" THEN {ImageAbsPath(st.current_base_name, size, "jpg")} ELSE {}

\* ------------------------------------------------------ main(): page stage

\* What reading the template and writing the page do.
HtmlOutcomes == {"written", "template_missing", "io_error"}

\* The page step without its dependency on the image stage.
HtmlGateOpen(st, d) == TRUE

\* Line 309: the image stage is flagged or <base_name>-640w.jpg exists.
HtmlGate(st, d) ==
  \/ STEP_IMAGE_CONVERSION \in st.processed_steps
  \/ ImageAbsPath(st.current_base_name, "640", "jpg") \in d

\* Line 389: str(BASE_OUTPUT_DIR.name / HTML_DIR.name / html_filename)
HtmlPagePath(base_name) ==
  PathDiv(PathDiv(PathName(BASE_OUTPUT_DIR), PathName(HTML_DIR)), PyStr(base_name \o <<".html">>))

\* Lines 307-399.  The page is written before line 389 builds the recorded
\* path; the TypeError of that line is caught by no handler of the step.
HtmlStep(st, d, outcome) ==
  IF HtmlGate(st, d) /\ ShouldRun(st.processed_steps, STEP_HTML_GENERATION)
  THEN LET ran == [st EXCEPT
                      !.invoked = @ \cup {"html"},
                      !.reported_ok = IF outcome = "written" THEN @ \cup {"html"} ELSE @]
           page == HtmlPagePath(st.current_base_name)
           steps == st.processed_steps \cup {STEP_HTML_GENERATION}
       IN  IF outcome # "written"
           THEN [ran EXCEPT !.pc = "persist", !.ext_failed = TRUE]
           ELSE IF page.type = "TypeError"
           THEN [ran EXCEPT !.pc = "crashed", !.exit_code = 1]
           ELSE [ran EXCEPT
                   !.pc = "persist",
                   !.processed_steps = steps,
                   !.current_asset_data =
                      Put(SetOutput(@, "html_page_path", PathStr(page)),
                          "processed_steps", SortedSteps(steps))]
  ELSE [st EXCEPT !.pc = "persist"]

\* ------------------------------------------------------ main(): video stage

\* What ffmpeg does for one height: both encodings, or one of them fails.
VideoOutcomes == {"ok", "mp4_failed", "webm_failed"}

\* f"{current_base_name}-{height}p.mp4"
VideoFileName(base_name, size, ext) == base_name \o <<"-", size, "p.", ext>>

\* Lines 429, 450: str(BASE_OUTPUT_DIR.name / VIDEO_DIR.name / mp4_filename)
VideoEntryPath(base_name, size, ext) ==
  PathDiv(PathDiv(PathName(BASE_OUTPUT_DIR), PathName(VIDEO_DIR)),
          PyStr(VideoFileName(base_name, size, ext)))

\* Lines 402-470: one pass of the loop over heights.  A TypeError of the path
\* expression is caught by "except Exception" like any failure of the pass.
VideoStep(st, outcome) ==
  IF ~ShouldRun(st.processed_steps, STEP_VIDEO_CONVERSION)
  THEN [st EXCEPT !.pc = "persist"]
  ELSE LET n == Len(st.attempts)
           height == heights[n + 1]
           asset == SetOutput(st.current_asset_data, "video_files",
                              FirstPassFiles(st.current_asset_data.outputs.video_files, n))
           mp4path == VideoEntryPath(st.current_base_name, SizeStr(height), "mp4")
           webmpath == VideoEntryPath(st.current_base_name, SizeStr(height), "webm")
           mp4 == [format |-> "mp4", height |-> height, path |-> PathStr(mp4path)]
           webm == [format |-> "webm", height |-> height, path |-> PathStr(webmpath)]
           mp4_ok == outcome # "mp4_failed" /\ mp4path.type # "TypeError"
           webm_ok == mp4_ok /\ outcome # "webm_failed" /\ webmpath.type # "TypeError"
           video_files ==
             asset.outputs.video_files
               \o (IF mp4_ok THEN <<mp4>> ELSE <<>>) \o (IF webm_ok THEN <<webm>> ELSE <<>>)
           ok == st.conversion_ok /\ webm_ok
           last == n + 1 = Len(heights) \/ ~webm_ok
           steps == IF last /\ ok
                    THEN st.processed_steps \cup {STEP_VIDEO_CONVERSION}
                    ELSE st.processed_steps
           recorded == SetOutput(asset, "video_files", video_files)
       IN  [st EXCEPT
              !.attempts = Append(@, [size |-> height, ok |-> webm_ok]),
              !.invoked = @ \cup {"video"},
              !.ext_failed = @ \/ outcome # "ok",
              !.conversion_ok = ok,
              !.processed_steps = steps,
              !.current_asset_data =
                 IF steps # st.processed_steps
                 THEN Put(recorded, "processed_steps", SortedSteps(steps))
                 ELSE recorded,
              !.pc = IF last THEN "persist" ELSE "video"]

\* ------------------------------------------------------ main(): persist

\* current_asset_data is the very dict find_asset_in_index returned: what
\* main() stored in it is in index_data too, at the position it was found.
Aliased(st) ==
  IF st.found_at > 0
  THEN [st.index_data EXCEPT ![st.found_at] = st.current_asset_data]
  ELSE st.index_data

\* What open(index_path, "w") and json.dump do.
OpenOutcomes == {"opened", "open_failed"}

WriteOutcomes == {"written", "write_failed"}

\* Lines 475-476 (and 217-218): update_asset_in_index, then save_index_data up
\* to open(index_path, "w").  A failed open is an IOError the function logs.
PersistStep(st, outcome) ==
  LET updated == [st EXCEPT !.index_data = update_asset_in_index(Aliased(st), st.current_asset_data)]
  IN  IF outcome = "opened"
      THEN [updated EXCEPT !.pc = "saving"]
      ELSE [updated EXCEPT !.pc = "done"]

\* index.json once open(index_path, "w") returned: the file is cut to length 0,
\* which json.load does not parse.
OpenedForWriting(f, outcome) == IF outcome = "opened" THEN InvalidFile ELSE f

\* Lines 56-59: json.dump writes the list, or fails with an IOError that is
\* logged; main() goes on to its end either way.
WriteStep(st, outcome) ==
  [st EXCEPT !.pc = "done", !.saved = outcome = "written"]

\* index.json after json.dump: the whole list, or a part of its text.
Written(st, outcome) ==
  IF outcome = "written" THEN ListFile(st.index_data) ELSE InvalidFile

\* The process is killed (a cancelled CI job): nothing more of main() runs.
KillStep(st) == [IdleProc EXCEPT !.pc = "killed", !.exit_code = 1, !.prev = Killed(st)]

\* ------------------------------------------------------------ actions

Running == {"gemini", "describe", "image", "html", "video", "persist", "saving"}

Init ==
  /\ file \in {AbsentFile, ListFile(<<>>)}
  /\ disk = {}
  /\ proc = [p \in Procs |-> IdleProc]
  /\ runs = 0

Start(p) ==
  /\ proc[p].pc \notin Running
  /\ runs < MaxRuns
  /\ \E file_hash \in Hashes, input_file \in InputFiles, url \in UrlArgs :
       proc' = [proc EXCEPT ![p] = LoadStep(proc[p], file, file_hash, input_file, url)]
  /\ runs' = runs + 1
  /\ UNCHANGED <<file, disk>>

Gemini(p) ==
  /\ proc[p].pc = "gemini"
  /\ \E result \in NamingResults :
       proc' = [proc EXCEPT ![p] = GeminiStep(proc[p], result)]
  /\ UNCHANGED <<file, disk, runs>>

Classify(p) ==
  /\ proc[p].pc = "describe"
  /\ proc' = [proc EXCEPT ![p] = ClassifyStep(proc[p])]
  /\ UNCHANGED <<file, disk, runs>>

ConvertImage(p) ==
  /\ proc[p].pc = "image"
  /\ \E outcome \in ImageOutcomes :
       /\ proc' = [proc EXCEPT ![p] = ImageStep(proc[p], outcome)]
       /\ disk' = disk \cup ImageWrites(proc[p], outcome)
  /\ UNCHANGED <<file, runs>>

GenerateHtml(p) ==
  /\ proc[p].pc = "html"
  /\ \E outcome \in HtmlOutcomes :
       proc' = [proc EXCEPT ![p] = HtmlStep(proc[p], disk, outcome)]
  /\ UNCHANGED <<file, disk, runs>>

ConvertVideo(p) ==
  /\ proc[p].pc = "video"
  /\ \E outcome \in VideoOutcomes :
       proc' = [proc EXCEPT ![p] = VideoStep(proc[p], outcome)]
  /\ UNCHANGED <<file, disk, runs>>

Persist(p) ==
  /\ proc[p].pc = "persist"
  /\ \E outcome \in OpenOutcomes :
       /\ proc' = [proc EXCEPT ![p] = PersistStep(proc[p], outcome)]
       /\ file' = OpenedForWriting(file, outcome)
  /\ UNCHANGED <<disk, runs>>

WriteIndex(p) ==
  /\ proc[p].pc = "saving"
  /\ \E outcome \in WriteOutcomes :
       /\ proc' = [proc EXCEPT ![p] = WriteStep(proc[p], outcome)]
       /\ file' = Written(proc[p], outcome)
  /\ UNCHANGED <<disk, runs>>

Kill(p) ==
  /\ proc[p].pc \in Running
  /\ proc' = [proc EXCEPT ![p] = KillStep(proc[p])]
  /\ UNCHANGED <<file, disk, runs>>

Step(p) ==
  \/ Start(p)
  \/ Gemini(p)
  \/ Classify(p)
  \/ ConvertImage(p)
  \/ GenerateHtml(p)
  \/ ConvertVideo(p)
  \/ Persist(p)
  \/ WriteIndex(p)
  \/ Kill(p)

\* Runs made one at a time, each begun after the one before has ended.
Next == Step(1)

Spec == Init /\ [][Next]_vars

\* Runs of two processes interleaved step by step, as parallel CI jobs are.
NextParallel == \E p \in Procs : Step(p)

SpecParallel == Init /\ [][NextParallel]_vars

\* An index.json written by hand or by an earlier version of the script: an
\* entry without processed_steps and outputs, and an entry flagged as named
\* that has no base name.
OlderEntry(file_hash) ==
  [source_file_path |-> <<"a", ".jpg">>, source_hash |-> file_hash,
   base_name |-> <<"red-bicycle">>,
   description_markdown_path |->
      PathStr(PathDiv(DESCRIPTION_DIR, PyStr(<<"red-bicycle", ".md">>)))]

NamelessEntry(file_hash) ==
  [source_file_path |-> <<"a", ".jpg">>, source_hash |-> file_hash,
   processed_steps |-> <<STEP_GEMINI_DESCRIPTION>>]

\* Any index.json a run may find: none, an empty list, text that is no JSON, a
\* JSON object, a list holding something that is no object, older entries.
InitAnyStore ==
  /\ file \in {AbsentFile, ListFile(<<>>), InvalidFile, ObjectFile, ListFile(<<NonDict>>)}
              \cup { ListFile(<<OlderEntry(h)>>) : h \in Hashes }
              \cup { ListFile(<<NamelessEntry(h)>>) : h \in Hashes }
  /\ disk = {}
  /\ proc = [p \in Procs |-> IdleProc]
  /\ runs = 0

SpecAnyStore == InitAnyStore /\ [][Next]_vars

\* ------------------------------------- main() from line 195, name unset

\* main() at line 195 after any outcome of the Gemini step, and also with
\* current_base_name unset there (None, or the empty string): the value the
\* test of line 214 is written for, which no branch of the Gemini step leaves.
InitAtDescription ==
  /\ file \in {AbsentFile, ListFile(<<>>)}
  /\ disk = {}
  /\ runs = 1
  /\ \E file_hash \in Hashes, input_file \in InputFiles, url \in UrlArgs,
        result \in NamingResults, unset \in BOOLEAN :
       LET st == GeminiStep(LoadStep(IdleProc, file, file_hash, input_file, url), result)
       IN  proc = [p \in Procs |->
                     IF p = 1
                     THEN IF unset THEN [st EXCEPT !.current_base_name = None] ELSE st
                     ELSE IdleProc]

SpecAtDescription == InitAtDescription /\ [][Next]_vars

\* ---------------------------------------- the Gemini step of two runs

\* --file-hash values of which two agree in their first 8 characters.
CloseHashes == Hashes \cup { <<"d41d", "8cd9", "0000">> }

\* Two runs side by side, each loaded and about to take its Gemini step, on
\* hashes and input files of their own; index.json is absent or holds an
\* older entry of some hash.
InitNaming ==
  /\ file \in {AbsentFile} \cup { ListFile(<<OlderEntry(h)>>) : h \in CloseHashes }
  /\ disk = {}
  /\ runs = Cardinality(Procs)
  /\ proc \in [Procs -> { LoadStep(IdleProc, file, file_hash, input_file, url) :
                            file_hash \in CloseHashes, input_file \in InputFiles,
                            url \in UrlArgs }]

NextNaming == \E p \in Procs : Gemini(p)

SpecNaming == InitNaming /\ [][NextNaming]_vars

\* --------------------------------------- update_asset_in_index on its own

\* Entries and lists to call update_asset_in_index with: entries of each hash,
\* an entry without source_hash, lists of up to MaxIndexLen of them (so also
\* lists holding the same hash twice).
MaxIndexLen == 3

IndexEntries ==
  { [source_hash |-> h, base_name |-> <<"old">>] : h \in Hashes }
    \cup { [base_name |-> <<"old">>] }

RECURSIVE IndexLists(_)
IndexLists(n) ==
  IF n = 0 THEN { <<>> }
  ELSE IndexLists(n - 1)
         \cup { Append(l, e) : l \in { m \in IndexLists(n - 1) : Len(m) = n - 1 },
                               e \in IndexEntries }

\* asset_data arguments: an entry of each hash, one whose source_hash is
\* None or "", one without the key.
AssetArguments ==
  { [source_hash |-> h, base_name |-> <<"new">>] : h \in Hashes \cup {None} }
    \cup { [base_name |-> <<"new">>] }

\* A process about to call update_asset_in_index(index_data, asset_data); loaded
\* keeps the list as it was passed.
InitUpdate ==
  /\ file = AbsentFile
  /\ disk = {}
  /\ runs = 0
  /\ \E index_data \in IndexLists(MaxIndexLen), asset_data \in AssetArguments :
       proc = [p \in Procs |->
                 IF p = 1
                 THEN [IdleProc EXCEPT !.pc = "update", !.index_data = index_data,
                                       !.loaded = index_data,
                                       !.current_asset_data = asset_data]
                 ELSE IdleProc]

\* The call returns: index_data is the list it returned.
Update(p) ==
  /\ proc[p].pc = "update"
  /\ proc' = [proc EXCEPT
                ![p] = [@ EXCEPT !.pc = "returned",
                                 !.index_data = update_asset_in_index(@, proc[p].current_asset_data)]]
  /\ UNCHANGED <<file, disk, runs>>

NextUpdate == Update(1)

SpecUpdate == InitUpdate /\ [][NextUpdate]_vars

\* ------------------------------------------------------------ properties

\* A process inside a run or at its end (not idle, not killed).
InRun(st) == st.pc \notin {"idle", "killed"}

\* The steps a run has added to those its entry had when loaded.
Added(st) == st.processed_steps \ st.loaded_steps

\* The steps recorded in the entry the run will write.
Recorded(st) == Range(Get(st.current_asset_data, "processed_steps"))

\* The persisted processed_steps of the entry of file_hash in index.json.
PersistedSteps(f, file_hash) ==
  LET data == load_index_data(f)
  IN  UNION { Range(Get(data[i], "processed_steps")) :
                i \in { j \in 1..Len(data) : Get(data[j], "source_hash") = file_hash } }

\* The flag of the derivative stage a run of this input file executes.
DerivativeFlag(st) ==
  IF is_image(st.input_file) THEN STEP_IMAGE_CONVERSION ELSE STEP_VIDEO_CONVERSION

\* C1: all-or-nothing stage completion.  In a run whose image (video)
\* derivative stage was executed and failed at a size class, that size class is
\* the last one attempted, and the stage flag is neither in processed_steps
\* nor in the entry, nor in the entry written to index.json at the end.
C1_AllOrNothing ==
  \A p \in Procs :
    LET st == proc[p]
        n == Len(st.attempts)
    IN  (InRun(st) /\ \E i \in 1..n : ~st.attempts[i].ok) =>
          /\ \A i \in 1..n : ~st.attempts[i].ok => i = n
          /\ DerivativeFlag(st) \notin st.processed_steps
          /\ DerivativeFlag(st) \notin Recorded(st)
          /\ (st.pc = "done" /\ st.saved) =>
                DerivativeFlag(st) \notin PersistedSteps(file, st.file_hash)

\* C1 witness: a run that ended and saved after its image stage failed at the
\* second of the three widths.
C1_Witness ==
  \E p \in Procs :
    /\ proc[p].pc = "done" /\ proc[p].saved
    /\ is_image(proc[p].input_file)
    /\ Len(proc[p].attempts) = 2
    /\ proc[p].attempts[1].ok /\ ~proc[p].attempts[2].ok

\* C2: idempotence, as claimed.  A run that ends with every external operation
\* succeeding and the index written, made right after such a run on the same
\* hash and input file, has invoked no executor and leaves index.json as it
\* was loaded.
C2_Idempotence ==
  \A p \in Procs :
    LET st == proc[p]
    IN  ( /\ st.pc = "done" /\ st.saved /\ ~st.ext_failed /\ st.exit_code = 0
          /\ st.prev.status = "clean"
          /\ st.prev.file_hash = st.file_hash
          /\ st.prev.input_file = st.input_file
          /\ st.prev.url = st.url ) =>
          /\ st.invoked = {}
          /\ file = ListFile(st.loaded)

\* The executor a stage flag belongs to.
ExecutorOf(step) ==
  CASE step = STEP_GEMINI_DESCRIPTION -> "naming"
    [] step = STEP_IMAGE_CONVERSION -> "image"
    [] step = STEP_HTML_GENERATION -> "html"
    [] step = STEP_VIDEO_CONVERSION -> "video"

\* C3: resumability, as claimed.  After a run was killed between two stages,
\* the next run on the same hash invokes the executor of no stage the killed
\* run had completed.
C3_Resumability ==
  \A p \in Procs :
    LET st == proc[p]
    IN  ( /\ InRun(st)
          /\ st.prev.status = "killed" /\ st.prev.between_stages
          /\ st.prev.file_hash = st.file_hash ) =>
          \A step \in st.prev.added : ExecutorOf(step) \notin st.invoked

\* C4: no lost update, as claimed.  When two runs on different hashes have both
\* ended with their save done, index.json holds the final entry of both.
C4_NoLostUpdate ==
  \A p, q \in Procs :
    LET sp == proc[p]
        sq == proc[q]
    IN  ( /\ p # q
          /\ sp.pc = "done" /\ sp.saved
          /\ sq.pc = "done" /\ sq.saved
          /\ sp.file_hash # sq.file_hash ) =>
          /\ file.json = "list"
          /\ \E i \in 1..Len(file.data) : file.data[i] = sp.current_asset_data
          /\ \E j \in 1..Len(file.data) : file.data[j] = sq.current_asset_data

\* C5: completed stages only grow, as claimed.  At the end of a run, every
\* step that was persisted for some entry when the run loaded index.json is
\* still persisted for the entry of that hash.
C5_MonotonicSteps ==
  \A p \in Procs :
    LET st == proc[p]
    IN  st.pc = "done" =>
          \A i \in 1..Len(st.loaded) :
            Range(Get(st.loaded[i], "processed_steps"))
              \subseteq PersistedSteps(file, Get(st.loaded[i], "source_hash"))

\* C6: no completion flag on failure.  A run adds gemini_description (to
\* processed_steps or to the entry) only if the naming script returned a name
\* in that run, and html_generation only if the page was written in that run.
C6_NoFlagOnFailure ==
  \A p \in Procs :
    LET st == proc[p]
        added == Added(st) \cup (Recorded(st) \ st.loaded_steps)
    IN  InRun(st) =>
          /\ STEP_GEMINI_DESCRIPTION \in added => "naming" \in st.reported_ok
          /\ STEP_HTML_GENERATION \in added => "html" \in st.reported_ok

\* C6 witness: a run that ended with naming flagged after the script returned
\* a name, and with the page step invoked, failed and not flagged.
C6_Witness ==
  \E p \in Procs :
    /\ proc[p].pc = "done"
    /\ STEP_GEMINI_DESCRIPTION \in Added(proc[p])
    /\ "naming" \in proc[p].reported_ok
    /\ "html" \in proc[p].invoked /\ "html" \notin proc[p].reported_ok
    /\ STEP_HTML_GENERATION \notin proc[p].processed_steps

\* C7: page-generation dependency.  The step that leaves the page stage
\* invokes the page writer only if, in the state it is taken from,
\* image_conversion is in processed_steps or <base_name>-640w.jpg is on disk;
\* otherwise it invokes nothing and leaves processed_steps as it was.
C7_PageGate ==
  [][ \A p \in Procs :
        LET st == proc[p]
            observable ==
              \/ STEP_IMAGE_CONVERSION \in st.processed_steps
              \/ ImageAbsPath(st.current_base_name, "640", "jpg") \in disk
        IN  (st.pc = "html" /\ proc'[p].pc \notin {"html", "killed"}) =>
              IF observable
              THEN TRUE
              ELSE /\ "html" \notin proc'[p].invoked
                   /\ proc'[p].processed_steps = st.processed_steps
                   /\ Recorded(proc'[p]) = Recorded(st) ]_vars

\* C7 witness: the page writer invoked on the strength of the file on disk,
\* the image stage not being flagged.
C7_Witness ==
  \E p \in Procs :
    /\ "html" \in proc[p].invoked
    /\ STEP_IMAGE_CONVERSION \notin proc[p].processed_steps

\* C8: identity uniqueness.  Whenever index.json holds a list, no two of its
\* entries have the same source_hash; the same holds of every process's
\* index_data.
Unique(data) ==
  \A i, j \in 1..Len(data) :
    i # j => Get(data[i], "source_hash") # Get(data[j], "source_hash")

C8_IdentityUnique ==
  /\ Unique(load_index_data(file))
  /\ \A p \in Procs : Unique(proc[p].index_data)

\* C8 witness: a run found the entry of its hash in the list it loaded and
\* has written the list back with that entry replaced.
C8_Witness ==
  /\ file.json = "list" /\ Len(file.data) = 1
  /\ \E p \in Procs : proc[p].pc = "done" /\ proc[p].saved /\ proc[p].found_at = 1

\* C9: atomic save, as claimed.  index.json is never text that json.load fails
\* to parse, and a run that ended without writing it has left the collection
\* it loaded.
C9_AtomicSave ==
  /\ file.json # "invalid"
  /\ \A p \in Procs :
       (proc[p].pc = "done" /\ ~proc[p].saved) => load_index_data(file) = proc[p].loaded

\* C10: tolerant load, as claimed.  A run that found index.json malformed (no
\* JSON, no list, or a list with an element that is no object) has not ended at
\* its load; it goes on with an empty collection and a new entry.
C10_TolerantLoad ==
  \A p \in Procs :
    LET st == proc[p]
    IN  (InRun(st) /\ st.malformed) =>
          /\ ~(st.pc = "crashed" /\ st.invoked = {})
          /\ st.loaded = <<>>
          /\ st.found_at = 0
          /\ st.loaded_steps = {}

\* C11: upsert against its reference.  For the list index_data passed and
\* the list returned by update_asset_in_index: when asset_data has no
\* source_hash (no key, None or "") the list is returned unchanged; when
\* some entry has asset_data's source_hash, the list has the same length, the
\* first such entry is asset_data and every other position is unchanged;
\* when none has, the list is the one passed with asset_data appended.
C11_UpsertReference ==
  \A p \in Procs :
    LET st == proc[p]
        before == st.loaded
        after == st.index_data
        asset_data == st.current_asset_data
        source_hash == Get(asset_data, "source_hash")
        matching == { i \in 1..Len(before) : Get(before[i], "source_hash") = source_hash }
    IN  st.pc = "returned" =>
          IF source_hash = None
          THEN after = before
          ELSE IF matching # {}
          THEN /\ Len(after) = Len(before)
               /\ \E first \in matching :
                    /\ \A i \in matching : first <= i
                    /\ after[first] = asset_data
                    /\ \A i \in 1..Len(before) : i # first => after[i] = before[i]
          ELSE /\ Len(after) = Len(before) + 1
               /\ after[Len(after)] = asset_data
               /\ \A i \in 1..Len(before) : after[i] = before[i]

\* C11 witness: the call replaced the first of two entries of asset_data's
\* hash in a list of three and left the second.
C11_Witness ==
  \E p \in Procs :
    LET st == proc[p]
    IN  /\ st.pc = "returned"
        /\ Len(st.loaded) = 3
        /\ Get(st.loaded[1], "source_hash") # Get(st.current_asset_data, "source_hash")
        /\ st.index_data[2] = st.current_asset_data
        /\ st.index_data[3] = st.loaded[3]
        /\ Get(st.loaded[3], "source_hash") = Get(st.current_asset_data, "source_hash")
        /\ Get(st.current_asset_data, "source_hash") # None

\* The prefix main() gives the fallback name for each way naming fails.
FallbackTag(naming_failure) ==
  CASE naming_failure = "error-output" -> "generic-media-"
    [] naming_failure = "script-failed" -> "generic-media-script-failed-"
    [] naming_failure = "script-missing" -> "generic-media-script-missing-"
    [] naming_failure = "exception" -> "generic-media-exception-"

\* The run has left its derivative stage behind.
PastDerivatives(st) == st.pc \in {"html", "persist", "saving", "done", "crashed"}

\* The paths recorded in the list the run's derivative stage fills:
\* image_files for an image, video_files for a video.
OutputPaths(st) ==
  LET outputs == st.current_asset_data.outputs
      files == IF is_image(st.input_file) THEN outputs.image_files ELSE outputs.video_files
  IN  { files[i].path : i \in 1..Len(files) }

\* C12: naming failure is non-fatal.  In a run whose naming operation failed
\* (error output, non-zero exit, missing script or exception): the naming
\* flag is neither in processed_steps nor in the entry, nor in the entry the
\* run saves; for an image or video whose derivative stage was not flagged
\* when loaded, the run has invoked that stage's executor once it is past the
\* stage, under a base name made of the failure's prefix and the first 8
\* characters of the hash, which every recorded output path carries; and the
\* next run on the same hash starts with the naming flag absent and invokes
\* the naming script (every run that loads no naming flag does).
C12_NamingFailureNonFatal ==
  [][ \A p \in Procs :
        LET before == proc[p]
            st == proc'[p]
            name == st.current_base_name
        IN  /\ (InRun(st) /\ st.naming_failure # "") =>
                 /\ STEP_GEMINI_DESCRIPTION \notin st.processed_steps \cup Recorded(st)
                 /\ (st.pc = "done" /\ st.saved) =>
                       STEP_GEMINI_DESCRIPTION \notin PersistedSteps(file', st.file_hash)
                 /\ name = <<FallbackTag(st.naming_failure)>> \o HashPrefix(st.file_hash)
                 /\ ( /\ PastDerivatives(st)
                      /\ is_image(st.input_file) \/ is_video(st.input_file)
                      /\ DerivativeFlag(st) \notin st.loaded_steps ) =>
                       /\ ExecutorOf(DerivativeFlag(st)) \in st.invoked
                       /\ st.attempts # <<>>
                       /\ \A path \in OutputPaths(st) :
                            SubSeq(path, 2, 1 + Len(name)) = name
            /\ ( /\ runs' = runs + 1
                 /\ before.pc \in {"done", "crashed"} /\ before.naming_failure # ""
                 /\ st.file_hash = before.file_hash ) =>
                  /\ st.pc = "gemini"
                  /\ STEP_GEMINI_DESCRIPTION \notin st.processed_steps
            /\ ( /\ InRun(st) /\ st.pc # "gemini"
                 /\ ~(st.pc = "crashed" /\ st.invoked = {})
                 /\ STEP_GEMINI_DESCRIPTION \notin st.loaded_steps ) =>
                  "naming" \in st.invoked ]_vars

\* C12 witness: a run that found the entry an earlier run had saved without
\* the naming flag, invoked the naming script, which raised, converted all
\* three widths under the fallback name and saved.
C12_Witness ==
  \E p \in Procs :
    LET st == proc[p]
    IN  /\ st.pc = "done" /\ st.saved
        /\ st.found_at = 1
        /\ st.naming_failure = "exception"
        /\ Len(st.attempts) = 3
        /\ Len(st.current_asset_data.outputs.image_files) >= 5
        /\ st.current_base_name = FallbackName("generic-media-exception-", st.file_hash)

\* The entries of file_hash in index.json.
PersistedEntries(f, file_hash) ==
  LET data == load_index_data(f)
  IN  { data[i] : i \in { j \in 1..Len(data) : Get(data[j], "source_hash") = file_hash } }

\* C13, as claimed: the fallback name is recorded.  After a run in which the
\* naming operation failed and which saved its entry, the entry of the hash in
\* index.json has for base_name the fallback name built from the first 8
\* characters of the hash, and carries no naming flag.
C13_FallbackRecorded ==
  \A p \in Procs :
    LET st == proc[p]
    IN  (st.pc = "done" /\ st.saved /\ st.naming_failure # "") =>
          \A entry \in PersistedEntries(file, st.file_hash) :
            /\ Get(entry, "base_name")
                 = <<FallbackTag(st.naming_failure)>> \o HashPrefix(st.file_hash)
            /\ STEP_GEMINI_DESCRIPTION \notin Range(Get(entry, "processed_steps"))

\* C13, amended: the fallback name is not recorded.  After a run in which
\* the naming operation failed and which saved its entry, index.json holds
\* the entry of the hash; its base_name is the one the run loaded (None for
\* a new entry) and it carries no naming flag, while the name the run worked
\* under was the fallback name built from the first 8 characters of the hash.
C13_FallbackNotRecorded ==
  \A p \in Procs :
    LET st == proc[p]
        loaded_name == IF st.found_at > 0 THEN Get(st.loaded[st.found_at], "base_name") ELSE None
    IN  (st.pc = "done" /\ st.saved /\ st.naming_failure # "") =>
          /\ PersistedEntries(file, st.file_hash) # {}
          /\ \A entry \in PersistedEntries(file, st.file_hash) :
               /\ Get(entry, "base_name") = loaded_name
               /\ STEP_GEMINI_DESCRIPTION \notin Range(Get(entry, "processed_steps"))
          /\ st.current_base_name
               = <<FallbackTag(st.naming_failure)>> \o HashPrefix(st.file_hash)

\* C13 witness: a run on a new entry whose naming script raised, which
\* recorded image files under the fallback name and saved the entry with
\* base_name None.
C13_Witness ==
  \E p \in Procs :
    LET st == proc[p]
    IN  /\ st.pc = "done" /\ st.saved /\ st.found_at = 0
        /\ st.naming_failure = "exception"
        /\ st.current_asset_data.outputs.image_files # <<>>
        /\ \E entry \in PersistedEntries(file, st.file_hash) :
             /\ Get(entry, "base_name") = None
             /\ entry.outputs.image_files # <<>>

\* The executors of the stages that build file names from the base name.
NamedStageExecutors == {"image", "video", "html"}

\* C14, as claimed: name precondition for derivative stages.  In a run in
\* which naming has not succeeded (the naming flag was not loaded and has not
\* been added), no image, video or page executor is invoked.
C14_NamePrecondition ==
  \A p \in Procs :
    LET st == proc[p]
    IN  (InRun(st) /\ STEP_GEMINI_DESCRIPTION \notin st.processed_steps) =>
          st.invoked \cap NamedStageExecutors = {}

\* C14, amended: the image, video and page executors are invoked only under
\* a base name that is not None; in a run in which naming has not succeeded
\* they are invoked under the fallback name of the naming failure (its prefix
\* and the first 8 characters of the hash), never left out for want of a name.
C14_FallbackPrecondition ==
  \A p \in Procs :
    LET st == proc[p]
    IN  (InRun(st) /\ st.invoked \cap NamedStageExecutors # {}) =>
          /\ st.current_base_name # None
          /\ STEP_GEMINI_DESCRIPTION \notin st.processed_steps =>
               /\ st.naming_failure # ""
               /\ st.current_base_name
                    = <<FallbackTag(st.naming_failure)>> \o HashPrefix(st.file_hash)

\* C14 witness: the page writer invoked after the image stage completed under
\* the fallback name of a missing naming script.
C14_Witness ==
  \E p \in Procs :
    LET st == proc[p]
    IN  /\ "html" \in st.invoked
        /\ STEP_IMAGE_CONVERSION \in st.processed_steps
        /\ STEP_GEMINI_DESCRIPTION \notin st.processed_steps
        /\ st.naming_failure = "script-missing"

\* C15, as claimed: the exit status reflects persistence.  A run that ended
\* with exit code 0 has written its entry to index.json: the save was done
\* and the file holds the run's list with its entry in it.
C15_ExitReflectsSave ==
  \A p \in Procs :
    LET st == proc[p]
    IN  (st.pc = "done" /\ st.exit_code = 0) =>
          /\ st.saved
          /\ st.current_asset_data \in PersistedEntries(file, st.file_hash)

\* C16: fatal outcome handling.  A run that is past line 195 with no base
\* name has invoked no image, video or page executor, carries the non-zero
\* exit code, is at its upsert and save or has ended after them with its
\* entry in the list it saved, and, when the save succeeded, in index.json.
C16_FatalOutcome ==
  \A p \in Procs :
    LET st == proc[p]
    IN  ( /\ InRun(st) /\ st.current_base_name = None
          /\ st.pc \notin {"gemini", "describe"}
          /\ ~(st.pc = "crashed" /\ st.invoked = {}) ) =>
          /\ st.pc \in {"persist", "saving", "done"}
          /\ st.invoked \cap NamedStageExecutors = {}
          /\ st.exit_code # 0
          /\ st.pc \in {"saving", "done"} =>
               \E i \in 1..Len(st.index_data) : st.index_data[i] = st.current_asset_data
          /\ (st.pc = "done" /\ st.saved) =>
               st.current_asset_data \in PersistedEntries(file, st.file_hash)

\* C16 witness: a run on an image that was at line 195 without a base name
\* has ended with its entry, which has no type and no outputs, saved.
C16_Witness ==
  \E p \in Procs :
    LET st == proc[p]
    IN  /\ st.pc = "done" /\ st.saved
        /\ st.current_base_name = None
        /\ is_image(st.input_file)
        /\ st.exit_code = 1
        /\ st.current_asset_data.outputs.type = None
        /\ file = ListFile(<<st.current_asset_data>>)

\* C17, as claimed: a single store write per run.  index.json changes only
\* in a step of a run's save; a run ends (with exit code 0 or not) only out of
\* its save, with its entry in the list it saved; and once a run's save has
\* begun the run does nothing but finish it.
C17_SingleWrite ==
  [][ \A p \in Procs :
        LET before == proc[p]
            st == proc'[p]
        IN  /\ file' # file =>
                 \E q \in Procs : proc[q].pc \in {"persist", "saving"}
                                    /\ proc'[q].pc \in {"saving", "done"}
            /\ (before.pc \in Running /\ st.pc \in {"done", "crashed"}) =>
                 /\ before.pc \in {"persist", "saving"}
                 /\ \E i \in 1..Len(st.index_data) : st.index_data[i] = st.current_asset_data
            /\ before.pc = "saving" => st.pc \in {"done", "killed"}
            /\ (before.pc = "done" /\ st.pc # "done") => runs' = runs + 1 ]_vars

\* C18: fallback naming determinism.  Two runs whose naming operation
\* failed for the same reason on hashes with the same first 8 characters work
\* under the same base name, whatever else differs between them (the rest of
\* the hash, the input file, the entry loaded, what the script printed).
C18_FallbackDeterminism ==
  \A p, q \in Procs :
    LET sp == proc[p]
        sq == proc[q]
    IN  ( /\ sp.pc = "describe" /\ sq.pc = "describe"
          /\ sp.naming_failure # "" /\ sp.naming_failure = sq.naming_failure
          /\ HashPrefix(sp.file_hash) = HashPrefix(sq.file_hash) ) =>
          sp.current_base_name = sq.current_base_name

\* C18 witness: two runs on different hashes with the same first 8 characters
\* and on different input files, both with a naming script that ended with a
\* non-zero return code, one of them on an entry that has a base name.
C18_Witness ==
  \E p, q \in Procs :
    LET sp == proc[p]
        sq == proc[q]
    IN  /\ sp.pc = "describe" /\ sq.pc = "describe"
        /\ sp.naming_failure = "script-failed" /\ sq.naming_failure = "script-failed"
        /\ sp.file_hash # sq.file_hash
        /\ HashPrefix(sp.file_hash) = HashPrefix(sq.file_hash)
        /\ sp.input_file # sq.input_file
        /\ sp.found_at = 1 /\ sq.found_at = 0
        /\ sp.current_base_name = sq.current_base_name

\* The flags of the stages after naming.
LaterSteps == {STEP_IMAGE_CONVERSION, STEP_HTML_GENERATION, STEP_VIDEO_CONVERSION}

\* C19: unknown asset type.  In a run whose input file has a suffix that is
\* neither an image nor a video suffix, no image, video or page executor is
\* invoked and no image, video or page flag is added; the run goes from the
\* type test straight to its upsert and save with outputs.type "unknown", and
\* when the save succeeded index.json holds that entry.
C19_UnknownType ==
  \A p \in Procs :
    LET st == proc[p]
    IN  (InRun(st) /\ Lower(st.input_file[2]) \notin ImageSuffixes \cup VideoSuffixes) =>
          /\ st.invoked \cap NamedStageExecutors = {}
          /\ (Added(st) \cup (Recorded(st) \ st.loaded_steps)) \cap LaterSteps = {}
          /\ st.pc \in {"gemini", "describe", "persist", "saving", "done"}
          /\ st.pc \in {"persist", "saving", "done"} =>
               st.current_asset_data.outputs.type = <<"unknown">>
          /\ st.pc \in {"saving", "done"} =>
               \E i \in 1..Len(st.index_data) : st.index_data[i] = st.current_asset_data
          /\ (st.pc = "done" /\ st.saved) =>
               st.current_asset_data \in PersistedEntries(file, st.file_hash)

\* C19 witness: a run on notes.txt has ended with exit code 0 and index.json
\* holds its entry, of type "unknown", with no output file.
C19_Witness ==
  \E p \in Procs :
    LET st == proc[p]
    IN  /\ st.pc = "done" /\ st.saved /\ st.exit_code = 0
        /\ st.input_file = <<"notes", ".txt">>
        /\ \E entry \in PersistedEntries(file, st.file_hash) :
             /\ entry.outputs.type = <<"unknown">>
             /\ entry.outputs.image_files = <<>> /\ entry.outputs.video_files = <<>>
             /\ entry.source_file_path = st.input_file

\* The executors at work in the step from before to st: one newly invoked,
\* or the conversion of one more size class.
ExecutorsRun(before, st) ==
  (st.invoked \ before.invoked)
    \cup (IF Len(st.attempts) > Len(before.attempts) /\ st.pc # "killed"
          THEN {ExecutorOf(DerivativeFlag(before))}
          ELSE {})

\* C20: step gate.  A step of a run puts the executor of a stage to work
\* only if the flag of that stage is not in processed_steps before the step
\* (the steps as loaded, with those the run has added); and a run has never
\* invoked the executor of a stage that was flagged in the entry it loaded.
C20_StepGate ==
  [][ \A p \in Procs :
        LET before == proc[p]
            st == proc'[p]
        IN  /\ runs' = runs =>
                 \A step \in Steps :
                   ExecutorOf(step) \in ExecutorsRun(before, st) =>
                     step \notin before.processed_steps
            /\ InRun(st) =>
                 /\ st.loaded_steps \subseteq st.processed_steps
                 /\ \A step \in st.loaded_steps : ExecutorOf(step) \notin st.invoked ]_vars

\* C20 witness: a run that loaded an entry flagged for naming and image
\* conversion has invoked neither the naming script nor convert, and has
\* invoked the page writer, whose flag was not there.
C20_Witness ==
  \E p \in Procs :
    LET st == proc[p]
    IN  /\ st.pc = "persist"
        /\ st.loaded_steps = {STEP_GEMINI_DESCRIPTION, STEP_IMAGE_CONVERSION}
        /\ st.invoked = {"html"}
        /\ st.attempts = <<>>

\* The size classes a run converted in full.
Converted(st) == { i \in 1..Len(st.attempts) : st.attempts[i].ok }

\* C21: full retry after partial failure.  The run that follows, on the same
\* hash and on an image, a run whose image stage failed at some width starts
\* with image_conversion not flagged; and every run that executes the image
\* stage attempts the widths 1920, 1280, 640 in that order from the first, up
\* to the first that fails, with image_files holding nothing but what its own
\* passes recorded: jpg and webp of each width converted, in order, under the
\* run's base name, and at most the jpg of the width that failed.
C21_FullRetry ==
  [][ \A p \in Procs :
        LET before == proc[p]
            st == proc'[p]
            files == st.current_asset_data.outputs.image_files
        IN  /\ ( /\ runs' = runs + 1
                 /\ before.pc \in {"done", "crashed"}
                 /\ is_image(before.input_file)
                 /\ \E i \in 1..Len(before.attempts) : ~before.attempts[i].ok
                 /\ st.file_hash = before.file_hash /\ is_image(st.input_file) ) =>
                  /\ st.pc = "gemini"
                  /\ STEP_IMAGE_CONVERSION \notin st.processed_steps
            /\ ( /\ InRun(st) /\ is_image(st.input_file)
                 /\ PastDerivatives(st) /\ ~(st.pc = "crashed" /\ st.invoked = {})
                 /\ STEP_IMAGE_CONVERSION \notin st.loaded_steps ) =>
                  /\ st.attempts # <<>>
                  /\ Len(st.attempts) = Len(widths) \/ ~st.attempts[Len(st.attempts)].ok
            /\ (InRun(st) /\ is_image(st.input_file) /\ st.attempts # <<>>) =>
                  /\ \A i \in 1..Len(st.attempts) : st.attempts[i].size = widths[i]
                  /\ Len(files) \in {2 * Cardinality(Converted(st)),
                                     2 * Cardinality(Converted(st)) + 1}
                  /\ Len(files) <= 2 * Len(st.attempts)
                  /\ \A i \in 1..Len(files) :
                       files[i] = ImageEntry(st.current_base_name, widths[(i + 1) \div 2],
                                             IF i % 2 = 1 THEN "jpg" ELSE "webp") ]_vars

\* C21 witness: a run found the entry of an earlier run whose image stage had
\* failed at the WebP of the second width (three entries recorded, no flag),
\* and has converted all three widths again, recording six entries.
C21_Witness ==
  \E p \in Procs :
    LET st == proc[p]
    IN  /\ st.pc = "html" /\ st.found_at = 1
        /\ Len(st.loaded[1].outputs.image_files) = 3
        /\ STEP_IMAGE_CONVERSION \notin st.loaded_steps
        /\ Len(st.attempts) = 3 /\ Converted(st) = {1, 2, 3}
        /\ Len(st.current_asset_data.outputs.image_files) = 6
        /\ STEP_IMAGE_CONVERSION \in st.processed_steps

\* The flags a complete run on this input file is to leave.
StepsOfType(input_file) ==
  IF is_image(input_file)
  THEN {STEP_GEMINI_DESCRIPTION, STEP_IMAGE_CONVERSION, STEP_HTML_GENERATION}
  ELSE IF is_video(input_file)
  THEN {STEP_GEMINI_DESCRIPTION, STEP_VIDEO_CONVERSION}
  ELSE {STEP_GEMINI_DESCRIPTION}

\* C22, as claimed: completion by retry.  Whatever index.json held before, a
\* run that has ended with every external operation it called succeeding
\* (naming script, convert, ffmpeg, template and page, and the write of
\* index.json when it got to it) leaves the entry of its hash in index.json
\* flagged for naming and for image conversion and page generation (for a
\* video: naming and video conversion).
C22_CompletionByRetry ==
  \A p \in Procs :
    LET st == proc[p]
    IN  ( /\ ~st.ext_failed
          /\ \/ st.pc = "done" /\ st.saved
             \/ st.pc = "crashed" /\ st.invoked # {} ) =>
          StepsOfType(st.input_file) \subseteq PersistedSteps(file, st.file_hash)

\* The fallback names of a hash, one for each way naming fails.
FallbackNames(file_hash) ==
  { <<FallbackTag(reason)>> \o HashPrefix(file_hash) :
      reason \in {"error-output", "script-failed", "script-missing", "exception"} }

\* The image_files a complete image stage records under base_name.
FullManifest(base_name) ==
  << ImageEntry(base_name, widths[1], "jpg"), ImageEntry(base_name, widths[1], "webp"),
     ImageEntry(base_name, widths[2], "jpg"), ImageEntry(base_name, widths[2], "webp"),
     ImageEntry(base_name, widths[3], "jpg"), ImageEntry(base_name, widths[3], "webp") >>

\* C23: no retroactive rename.  In a run that loaded an entry flagged for
\* image conversion and not for naming (the stage was completed under a
\* fallback name) and whose naming script returned a name: the entry's
\* base_name is that name and it is none of the fallback names, convert is not
\* invoked, and image_files is as loaded, the six entries built from a fallback
\* name; the entry the run saves has that name and those entries.
C23_NoRetroactiveRename ==
  \A p \in Procs :
    LET st == proc[p]
        loaded_files == st.loaded[st.found_at].outputs.image_files
    IN  ( /\ InRun(st) /\ st.found_at > 0
          /\ STEP_IMAGE_CONVERSION \in st.loaded_steps
          /\ STEP_GEMINI_DESCRIPTION \notin st.loaded_steps
          /\ "naming" \in st.invoked /\ st.naming_failure = "" ) =>
          /\ Get(st.current_asset_data, "base_name") = st.current_base_name
          /\ st.current_base_name \notin FallbackNames(st.file_hash) \cup {None}
          /\ STEP_GEMINI_DESCRIPTION \in st.processed_steps
          /\ STEP_IMAGE_CONVERSION \in st.processed_steps
          /\ "image" \notin st.invoked
          /\ is_image(st.input_file) => st.attempts = <<>>
          /\ st.current_asset_data.outputs.image_files = loaded_files
          /\ \E name \in FallbackNames(st.file_hash) : loaded_files = FullManifest(name)
          /\ (st.pc = "done" /\ st.saved) =>
               st.current_asset_data \in PersistedEntries(file, st.file_hash)

\* C23 witness: such a run has ended and saved the entry: named red-bicycle,
\* flagged for naming and image conversion, its six image files named after
\* the fallback name of the earlier run.
C23_Witness ==
  \E p \in Procs :
    LET st == proc[p]
    IN  /\ st.pc = "done" /\ st.saved /\ st.found_at = 1
        /\ st.loaded[1].base_name = None
        /\ STEP_IMAGE_CONVERSION \in st.loaded_steps
        /\ file.json = "list"
        /\ file.data[1].base_name = <<"red-bicycle">>
        /\ file.data[1].processed_steps = <<STEP_GEMINI_DESCRIPTION, STEP_IMAGE_CONVERSION>>
        /\ file.data[1].outputs.image_files
             = FullManifest(FallbackName("generic-media-exception-", st.file_hash))

\* C24, as claimed: records are never dropped or touched by other assets'
\* runs.  When a run has ended, every entry of another hash in the list it
\* loaded is in index.json at the same position and equal to what was loaded,
\* and the entry the run updated has the source_hash it was loaded with.
C24_OtherRecordsKept ==
  \A p \in Procs :
    LET st == proc[p]
    IN  st.pc \in {"done", "crashed"} =>
          /\ \A i \in 1..Len(st.loaded) :
               Get(st.loaded[i], "source_hash") # st.file_hash =>
                 /\ file.json = "list"
                 /\ i <= Len(file.data)
                 /\ file.data[i] = st.loaded[i]
          /\ st.found_at > 0 =>
               Get(st.current_asset_data, "source_hash")
                 = Get(st.loaded[st.found_at], "source_hash")

\* The format and size class of each entry of a derivative list, in order.
Shape(files, size) == [i \in 1..Len(files) |-> <<files[i].format, files[i][size]>>]

\* C26: the manifest matches the stage flag.  In every entry of index.json
\* flagged for image conversion, image_files holds exactly six entries, jpg
\* then webp for the widths 1920, 1280, 640 in that order; in every entry
\* flagged for video conversion, video_files holds exactly four entries, mp4
\* then webm for the heights 1080, 720.
C26_ManifestMatchesFlag ==
  LET data == load_index_data(file)
  IN  \A i \in 1..Len(data) :
        LET steps == Range(Get(data[i], "processed_steps"))
        IN  /\ STEP_IMAGE_CONVERSION \in steps =>
                 Shape(data[i].outputs.image_files, "width")
                   = << <<"jpg", 1920>>, <<"webp", 1920>>, <<"jpg", 1280>>,
                        <<"webp", 1280>>, <<"jpg", 640>>, <<"webp", 640>> >>
            /\ STEP_VIDEO_CONVERSION \in steps =>
                 Shape(data[i].outputs.video_files, "height")
                   = << <<"mp4", 1080>>, <<"webm", 1080>>,
                        <<"mp4", 720>>, <<"webm", 720>> >>

\* C26 witness: index.json holds an entry flagged for image conversion with
\* the six image files, and an entry without the flag whose image_files is a
\* partial list.
C26_Witness ==
  LET data == load_index_data(file)
  IN  /\ \E i \in 1..Len(data) :
           /\ STEP_IMAGE_CONVERSION \in Range(Get(data[i], "processed_steps"))
           /\ Len(data[i].outputs.image_files) = 6
      /\ \E i \in 1..Len(data) :
           /\ STEP_IMAGE_CONVERSION \notin Range(Get(data[i], "processed_steps"))
           /\ Len(data[i].outputs.image_files) \in 1..5

\* The outputs.type lines 230-235 record for an input file.
TypeOf(input_file) ==
  IF is_image(input_file) THEN <<"image">>
  ELSE IF is_video(input_file) THEN <<"video">>
  ELSE <<"unknown">>

\* C27: the fatal no-name exit is unreachable.  A run that is past the naming
\* step, whichever way it went through it, has a non-empty working base name;
\* it does not carry the exit code of the "base_name is not set" exit; and
\* once past line 195 it has recorded the type of its input file.
C27_NoFatalExit ==
  \A p \in Procs :
    LET st == proc[p]
    IN  ( /\ InRun(st) /\ st.pc # "gemini"
          /\ ~(st.pc = "crashed" /\ st.invoked = {}) ) =>
          /\ st.current_base_name # None
          /\ Len(st.current_base_name) > 0
          /\ st.pc # "crashed" => st.exit_code # FatalExit
          /\ st.pc # "describe" =>
               st.current_asset_data.outputs.type = TypeOf(st.input_file)

\* C27 witness: a run that loaded an entry flagged for naming with no
\* base_name has ended with exit code 0, having worked under the recovery
\* name and recorded the type.
C27_Witness ==
  \E p \in Procs :
    LET st == proc[p]
    IN  /\ st.pc = "done" /\ st.exit_code = 0
        /\ st.found_at > 0
        /\ STEP_GEMINI_DESCRIPTION \in st.loaded_steps
        /\ Get(st.loaded[st.found_at], "base_name") = None
        /\ "naming" \notin st.invoked
        /\ st.current_base_name = <<"generic-recovery-">> \o HashPrefix(st.file_hash)
        /\ st.current_asset_data.outputs.type = <<"image">>

\* The stage flags an entry of a given outputs.type may carry besides naming.
FlagsOfType(type) ==
  CASE type = <<"image">> -> {STEP_IMAGE_CONVERSION, STEP_HTML_GENERATION}
    [] type = <<"video">> -> {STEP_VIDEO_CONVERSION}
    [] OTHER -> {}

\* C28, as claimed: type-exclusive stages.  No entry of index.json carries
\* video_conversion together with image_conversion or html_generation, and
\* the derivative flags an entry carries are those of its outputs.type.
C28_TypeExclusive ==
  LET data == load_index_data(file)
  IN  \A i \in 1..Len(data) :
        LET steps == Range(Get(data[i], "processed_steps"))
        IN  /\ STEP_VIDEO_CONVERSION \in steps =>
                 steps \cap {STEP_IMAGE_CONVERSION, STEP_HTML_GENERATION} = {}
            /\ steps \ {STEP_GEMINI_DESCRIPTION} \subseteq FlagsOfType(data[i].outputs.type)

====
